---------------------------- MODULE Spec2Model ----------------------------
(***************************************************************************)
(* A model of the skydb authentication types (AuthData, AuthInfo) and of   *)
(* the field-access update handler of skygear-server.                      *)
(*                                                                         *)
(* Go maps are reference values: a map is modelled as a cell of `heap`     *)
(* reached through a reference, so that sharing between the map handed to  *)
(* NewAuthData, the AuthData and the map GetData returns is visible.       *)
(* A map's contents are a total function over the key universe with the    *)
(* marker Absent for a key that is not in the map; the Go value nil        *)
(* stored under a key is Null.  Reading a missing key gives Null (Lookup). *)
(***************************************************************************)
EXTENDS Integers, Sequences, FiniteSets, TLC

VARIABLES
    keys,       \* AuthData.keys: the key groups, in declared order
    dataRef,    \* AuthData.data: a reference to a map, or NilRef
    heap,       \* the contents of the maps that exist
    returned,   \* the reference GetData last handed to the caller, or NilRef
    ret,        \* the value the last call returned
    lastCall,   \* the operation that ran last
    panicked,   \* a Go runtime panic has unwound the caller
    arg,        \* the arguments of the last call, where they are kept
    info,       \* the AuthInfo
    kind,       \* which constructor built info
    now,        \* the wall clock time.Now() reads
    pwEverSet,  \* history: SetPassword has run on info since construction
    log,        \* history: the provider-info calls made on info, oldest first
    facl,       \* the field-access rule table held by the record store
    reqBody,    \* the body of the last field-access update request
    resp        \* the response of the last field-access request

vars == <<keys, dataRef, heap, returned, ret, lastCall, panicked, arg,
          info, kind, now, pwEverSet, log, facl, reqBody, resp>>

authDataVars == <<keys, dataRef, heap, returned, ret, lastCall, panicked, arg>>
authInfoVars == <<info, kind, now, pwEverSet, log>>
faclVars     == <<facl, reqBody, resp>>

-----------------------------------------------------------------------------
(* Bounds and input domains *)

MaxGroups == 3

MaxUpdGroups == 1

MaxTime == 2

MaxOps == 3

\* Field names: the first two are used in key groups, the third is a name
\* no key group declares.
GroupFields == {"username", "email"}

FieldNames == GroupFields \cup {"nickname"}

Null == "<nil>"

Absent == "<absent>"

Values == {"alice"}

\* The key groups enumerated: empty, single, both orders of a pair, and a
\* group naming one field twice.
Groups ==
    { <<>>, <<"username">>, <<"email">>, <<"username", "email">>,
      <<"email", "username">>, <<"username", "username">> }

SeqsUpTo(S, n) == UNION { [1..m -> S] : m \in 0..n }

KeyGroupLists == SeqsUpTo(Groups, MaxGroups)

Maps == [FieldNames -> Values \cup {Null, Absent}]

EmptyMap == [k \in FieldNames |-> Absent]

NilRef == "nil"

DataCell == "data"

RetCell == "ret"

Range(s) == { s[i] : i \in 1..Len(s) }

-----------------------------------------------------------------------------
(* Go map primitives *)

\* The contents read through a reference; a nil map reads as an empty map.
Deref(ref) == IF ref = NilRef THEN EmptyMap ELSE heap[ref]

\* range over a map: the keys it holds.
KeysOf(d) == { k \in FieldNames : d[k] # Absent }

\* d[key]: the zero value nil for a missing key.
Lookup(d, key) == IF d[key] = Absent THEN Null ELSE d[key]

-----------------------------------------------------------------------------
(* AuthData *)

Data == Deref(dataRef)

allKeys(ks) == UNION { Range(ks[i]) : i \in 1..Len(ks) }

\* A plausible slip: presence alone counts, a nil value is not looked at.
isFieldEmptyNever(d, key) == FALSE

isFieldEmpty(d, key) == Lookup(d, key) = Null

\* The inner loop of usingKeys: the keys of the data equal to k and not empty.
CountField(d, k) ==
    Cardinality({ dk \in KeysOf(d) : k = dk /\ ~isFieldEmpty(d, dk) })

RECURSIVE CountGroup(_, _)
CountGroup(d, ks) ==
    IF ks = <<>> THEN 0 ELSE CountField(d, Head(ks)) + CountGroup(d, Tail(ks))

\* A plausible slip: the scan keeps going and the last satisfied group wins.
RECURSIVE usingKeysLast(_, _)
usingKeysLast(d, groups) ==
    IF groups = <<>> THEN <<>>
    ELSE LET g == groups[Len(groups)]
         IN  IF Len(g) = CountGroup(d, g) THEN g
             ELSE usingKeysLast(d, SubSeq(groups, 1, Len(groups) - 1))

RECURSIVE usingKeysFrom(_, _)
usingKeysFrom(d, groups) ==
    IF groups = <<>> THEN <<>>
    ELSE IF Len(Head(groups)) = CountGroup(d, Head(groups)) THEN Head(groups)
    ELSE usingKeysFrom(d, Tail(groups))

usingKeys(d, ks) == usingKeysFrom(d, ks)

EqualPredicate(key, value) ==
    [ Operator |-> "Equal",
      Children |-> << [Type |-> "KeyPath", Value |-> key],
                      [Type |-> "Literal", Value |-> value] >> ]

\* A plausible slip: the new term is put in front of the terms built so far.
prependEqualPredicateForKey(d, predicates, key) ==
    IF Lookup(d, key) = Null THEN predicates
    ELSE <<EqualPredicate(key, Lookup(d, key))>> \o predicates

appendEqualPredicateForKey(d, predicates, key) ==
    IF Lookup(d, key) = Null THEN predicates
    ELSE Append(predicates, EqualPredicate(key, Lookup(d, key)))

RECURSIVE AppendPredicates(_, _, _)
AppendPredicates(d, predicates, ks) ==
    IF ks = <<>> THEN predicates
    ELSE AppendPredicates(d, appendEqualPredicateForKey(d, predicates, Head(ks)),
                          Tail(ks))

MakeEqualPredicate(d, ks) ==
    [ Operator |-> "And", Children |-> AppendPredicates(d, <<>>, usingKeys(d, ks)) ]

\* A plausible slip: the check for undeclared attributes is left out.
IsValidNoStrayCheck(d, ks) == Len(usingKeys(d, ks)) > 0

IsValid(d, ks) ==
    /\ \A dk \in KeysOf(d) : \E k \in allKeys(ks) : dk = k
    /\ Len(usingKeys(d, ks)) > 0

IsEmpty(d) ==
    \/ Cardinality(KeysOf(d)) = 0
    \/ \A k \in KeysOf(d) : isFieldEmpty(d, k)

\* NewAuthData keeps the caller's map itself: no copy is made.
NewAuthData(ref, m, authRecordKeys) ==
    /\ keys = authRecordKeys
    /\ dataRef = ref
    /\ heap = [c \in {DataCell, RetCell} |->
                 IF c = DataCell /\ ref # NilRef THEN m ELSE EmptyMap]
    /\ returned = NilRef
    /\ ret = <<>>
    /\ lastCall = "NewAuthData"
    /\ panicked = FALSE
    /\ arg = <<>>

\* The parts of the state an AuthData specification does not use.
IdleAuthInfo ==
    /\ info = <<>>
    /\ kind = "none"
    /\ now = 0
    /\ pwEverSet = FALSE
    /\ log = <<>>

IdleFacl ==
    /\ facl = {}
    /\ reqBody = {}
    /\ resp = "none"

\* The pure methods: each call leaves the AuthData as it is.
CallUsingKeys ==
    /\ ~panicked
    /\ ret' = usingKeys(Data, keys)
    /\ lastCall' = "usingKeys"
    /\ UNCHANGED <<keys, dataRef, heap, returned, arg, panicked, authInfoVars, faclVars>>

CallAllKeys ==
    /\ ~panicked
    /\ ret' = allKeys(keys)
    /\ lastCall' = "allKeys"
    /\ UNCHANGED <<keys, dataRef, heap, returned, arg, panicked, authInfoVars, faclVars>>

CallIsValid ==
    /\ ~panicked
    /\ ret' = IsValid(Data, keys)
    /\ lastCall' = "IsValid"
    /\ UNCHANGED <<keys, dataRef, heap, returned, arg, panicked, authInfoVars, faclVars>>

CallIsEmpty ==
    /\ ~panicked
    /\ ret' = IsEmpty(Data)
    /\ lastCall' = "IsEmpty"
    /\ UNCHANGED <<keys, dataRef, heap, returned, arg, panicked, authInfoVars, faclVars>>

CallMakeEqualPredicate ==
    /\ ~panicked
    /\ ret' = MakeEqualPredicate(Data, keys)
    /\ lastCall' = "MakeEqualPredicate"
    /\ UNCHANGED <<keys, dataRef, heap, returned, arg, panicked, authInfoVars, faclVars>>

\* A plausible slip: a field the record lacks is skipped instead of cleared.
UpdateSkippingMissing(record) ==
    /\ ~panicked
    /\ IF dataRef = NilRef /\ allKeys(keys) # {}
         THEN panicked' = TRUE /\ UNCHANGED heap
         ELSE /\ panicked' = FALSE
              /\ heap' = IF dataRef = NilRef THEN heap
                         ELSE [heap EXCEPT ![dataRef] =
                                 [k \in FieldNames |->
                                    IF k \in allKeys(keys) /\ record[k] # Absent
                                      THEN record[k] ELSE @[k]]]
    /\ lastCall' = "UpdateFromRecordData"
    /\ ret' = <<>>
    /\ UNCHANGED <<keys, dataRef, returned, authInfoVars, faclVars>>

\* a.data[k] = data[k] for every k of allKeys().  Assigning to an entry of a
\* nil map is a runtime panic; with no key to assign the loop body never runs.
UpdateFromRecordData(record) ==
    /\ ~panicked
    /\ IF dataRef = NilRef /\ allKeys(keys) # {}
         THEN panicked' = TRUE /\ UNCHANGED heap
         ELSE /\ panicked' = FALSE
              /\ heap' = IF dataRef = NilRef THEN heap
                         ELSE [heap EXCEPT ![dataRef] =
                                 [k \in FieldNames |->
                                    IF k \in allKeys(keys)
                                      THEN Lookup(record, k) ELSE @[k]]]
    /\ lastCall' = "UpdateFromRecordData"
    /\ ret' = <<>>
    /\ UNCHANGED <<keys, dataRef, returned, authInfoVars, faclVars>>

\* A plausible slip: the internal map itself is handed out.
GetDataShared ==
    /\ ~panicked
    /\ returned' = dataRef
    /\ ret' = dataRef
    /\ lastCall' = "GetData"
    /\ UNCHANGED <<keys, dataRef, heap, panicked, arg, authInfoVars, faclVars>>

\* A new map c receives every entry of a.data; c is what the caller gets.
GetData ==
    /\ ~panicked
    /\ heap' = [heap EXCEPT ![RetCell] =
                  [k \in FieldNames |-> IF k \in KeysOf(Data) THEN Data[k] ELSE Absent]]
    /\ returned' = RetCell
    /\ ret' = RetCell
    /\ lastCall' = "GetData"
    /\ UNCHANGED <<keys, dataRef, panicked, arg, authInfoVars, faclVars>>

\* The caller stores into, or deletes from, the map GetData returned.
CallerWriteReturned(k, v) ==
    /\ ~panicked
    /\ returned # NilRef
    /\ heap' = [heap EXCEPT ![returned][k] = v]
    /\ lastCall' = "CallerWriteReturned"
    /\ ret' = <<>>
    /\ UNCHANGED <<keys, dataRef, returned, arg, panicked, authInfoVars, faclVars>>

CallerDeleteReturned(k) ==
    /\ ~panicked
    /\ returned # NilRef
    /\ heap' = [heap EXCEPT ![returned][k] = Absent]
    /\ lastCall' = "CallerDeleteReturned"
    /\ ret' = <<>>
    /\ UNCHANGED <<keys, dataRef, returned, arg, panicked, authInfoVars, faclVars>>

\* The caller stores into the map it handed to NewAuthData, which the
\* AuthData still shares.
CallerWriteArgument(k, v) ==
    /\ ~panicked
    /\ dataRef # NilRef
    /\ heap' = [heap EXCEPT ![dataRef][k] = v]
    /\ lastCall' = "CallerWriteArgument"
    /\ ret' = <<>>
    /\ UNCHANGED <<keys, dataRef, returned, arg, panicked, authInfoVars, faclVars>>

-----------------------------------------------------------------------------
(* The matcher: the pure methods of AuthData over every input *)

InitMatcher ==
    /\ \E ks \in KeyGroupLists, ref \in {NilRef, DataCell}, m \in Maps :
          /\ ref = NilRef => m = EmptyMap
          /\ NewAuthData(ref, m, ks)
    /\ IdleAuthInfo
    /\ IdleFacl

NextMatcher ==
    \/ CallUsingKeys
    \/ CallAllKeys
    \/ CallIsValid
    \/ CallIsEmpty
    \/ CallMakeEqualPredicate

SpecMatcher == InitMatcher /\ [][NextMatcher]_vars

(* The AuthData as an object: updates, copies handed out, and the callers *)
(* that hold references to its maps                                       *)

\* The records without the field no group declares: UpdateFromRecordData
\* reads a record at the keys of allKeys() only.
DeclaredRecords == { m \in Maps : m["nickname"] = Absent }

PlainUpdateFromRecordData(record) ==
    /\ UpdateFromRecordData(record)
    /\ UNCHANGED arg

InitAuthData ==
    /\ \E ks \in SeqsUpTo(Groups, MaxUpdGroups), ref \in {NilRef, DataCell}, m \in Maps :
          /\ ref = NilRef => m = EmptyMap
          /\ NewAuthData(ref, m, ks)
    /\ IdleAuthInfo
    /\ IdleFacl

NextAuthData ==
    \/ \E record \in DeclaredRecords : PlainUpdateFromRecordData(record)
    \/ GetData
    \/ \E k \in FieldNames, v \in Values \cup {Null} : CallerWriteReturned(k, v)
    \/ \E k \in FieldNames : CallerDeleteReturned(k)
    \/ \E k \in FieldNames, v \in Values \cup {Null} : CallerWriteArgument(k, v)

SpecAuthData == InitAuthData /\ [][NextAuthData]_vars

(* UpdateFromRecordData with the record of each call kept *)

CallUpdateFromRecordData(record) ==
    /\ UpdateFromRecordData(record)
    /\ arg' = <<record>>

NextUpdate == \E record \in Maps : CallUpdateFromRecordData(record)

SpecUpdate == InitAuthData /\ [][NextUpdate]_vars

-----------------------------------------------------------------------------
(* AuthInfo *)

\* The parts of the state an AuthInfo or field-access specification does
\* not use.
IdleAuthData ==
    /\ keys = <<>>
    /\ dataRef = NilRef
    /\ heap = [c \in {DataCell, RetCell} |-> EmptyMap]
    /\ returned = NilRef
    /\ arg = <<>>

UUIDs == {"7f1c9a52-uuid4"}

\* A password is the pair of its first 72 bytes and the bytes after them:
\* bcrypt keys its cipher with the first 72 bytes and reads no further.
Passwords == { <<"", "">>, <<"secret", "">>, <<"72 bytes", "x">>, <<"72 bytes", "y">> }

Salts == {"salt1", "salt2"}

RoleLists == { <<>>, <<"admin">> }

PrincipalIDs == {"com.facebook:46709394", "com.example:7"}

AuthBlobs == {"{accessToken}"}

NoProviderInfo == [isNil |-> TRUE, m |-> [p \in PrincipalIDs |-> Absent]]

MakeProviderInfo == [isNil |-> FALSE, m |-> [p \in PrincipalIDs |-> Absent]]

bcryptKey(password) == password[1]

\* bcrypt.GenerateFromPassword: a hash that carries its salt.
GenerateFromPassword(password, salt) == [salt |-> salt, key |-> bcryptKey(password)]

\* bcrypt.CompareHashAndPassword(...) == nil: a hash too short to be one (the
\* nil HashedPassword) matches nothing; otherwise the password is hashed with
\* the salt of the stored hash and the two are compared.
CompareHashAndPassword(hashed, password) ==
    /\ Len(hashed) > 0
    /\ GenerateFromPassword(password, hashed[1].salt) = hashed[1]

\* A plausible slip: the token watermark is left as it was.
SetPasswordKeepingWatermark(i, password, salt, timeNow) ==
    [i EXCEPT !.HashedPassword = <<GenerateFromPassword(password, salt)>>]

SetPassword(i, password, salt, timeNow) ==
    [i EXCEPT !.HashedPassword = <<GenerateFromPassword(password, salt)>>,
              !.TokenValidSince = <<timeNow>>]

IsSamePassword(i, password) == CompareHashAndPassword(i.HashedPassword, password)

BlankAuthInfo(id) ==
    [ ID |-> id, HashedPassword |-> <<>>, Roles |-> <<>>,
      ProviderInfo |-> NoProviderInfo, TokenValidSince |-> <<>>, LastSeenAt |-> <<>> ]

NewAuthInfo(id, password, salt, timeNow) ==
    SetPassword(BlankAuthInfo(id), password, salt, timeNow)

\* A plausible slip: the anonymous constructor goes through NewAuthInfo("").
NewAnonymousWithEmptyPassword(id) ==
    [BlankAuthInfo(id) EXCEPT !.HashedPassword = <<GenerateFromPassword(<<"", "">>, "salt1")>>]

NewAnonymousAuthInfo(id) == BlankAuthInfo(id)

NewProviderInfoAuthInfo(id, principalID, authData) ==
    [BlankAuthInfo(id) EXCEPT
        !.ProviderInfo = [MakeProviderInfo EXCEPT !.m[principalID] = authData]]

\* The result of each provider-info method is the AuthInfo it leaves and
\* whether it panicked: storing into a nil map panics.
SetProviderInfoData(i, principalID, authData) ==
    LET pinfo == IF i.ProviderInfo.isNil THEN MakeProviderInfo ELSE i.ProviderInfo
    IN  [ info  |-> [i EXCEPT !.ProviderInfo =
                        IF pinfo.isNil THEN pinfo
                        ELSE [pinfo EXCEPT !.m[principalID] = authData]],
          panic |-> pinfo.isNil ]

GetProviderInfoData(i, principalID) ==
    IF i.ProviderInfo.isNil THEN Null
    ELSE IF i.ProviderInfo.m[principalID] = Absent THEN Null
    ELSE i.ProviderInfo.m[principalID]

\* A plausible slip: the whole map is dropped, not the one entry.
RemoveEveryProviderInfoData(i, principalID) ==
    [i EXCEPT !.ProviderInfo = NoProviderInfo]

RemoveProviderInfoData(i, principalID) ==
    IF ~i.ProviderInfo.isNil
      THEN [i EXCEPT !.ProviderInfo.m[principalID] = Absent]
      ELSE i

\* The calls on the AuthInfo.
CallSetPassword(password) ==
    /\ ~panicked
    /\ \E salt \in Salts : info' = SetPassword(info, password, salt, now)
    /\ pwEverSet' = TRUE
    /\ lastCall' = "SetPassword"
    /\ UNCHANGED <<kind, now, log, ret, panicked, keys, dataRef, heap, returned, arg, faclVars>>

CallSetProviderInfoData(principalID, authData) ==
    /\ ~panicked
    /\ info' = SetProviderInfoData(info, principalID, authData).info
    /\ panicked' = SetProviderInfoData(info, principalID, authData).panic
    /\ lastCall' = "SetProviderInfoData"
    /\ UNCHANGED <<kind, now, pwEverSet, log, ret, keys, dataRef, heap, returned, arg, faclVars>>

CallRemoveProviderInfoData(principalID) ==
    /\ ~panicked
    /\ info' = RemoveProviderInfoData(info, principalID)
    /\ lastCall' = "RemoveProviderInfoData"
    /\ UNCHANGED <<kind, now, pwEverSet, log, ret, panicked, keys, dataRef, heap, returned, arg, faclVars>>

\* Roles is an exported field: callers assign it.
AssignRoles(roles) ==
    /\ ~panicked
    /\ info' = [info EXCEPT !.Roles = roles]
    /\ lastCall' = "AssignRoles"
    /\ UNCHANGED <<kind, now, pwEverSet, log, ret, panicked, keys, dataRef, heap, returned, arg, faclVars>>

\* time.Now().UTC() is a wall-clock reading without the monotonic part: the
\* clock runs on between calls, and a clock adjustment may set it back.
ClockTick ==
    /\ now < MaxTime
    /\ now' = now + 1
    /\ UNCHANGED <<info, kind, pwEverSet, log, authDataVars, faclVars>>

ClockSetBack ==
    /\ now > 0
    /\ now' = now - 1
    /\ UNCHANGED <<info, kind, pwEverSet, log, authDataVars, faclVars>>

\* The three constructors.
Constructed ==
    \/ /\ kind = "password"
       /\ \E id \in UUIDs, password \in Passwords, salt \in Salts :
             info = NewAuthInfo(id, password, salt, now)
       /\ pwEverSet = TRUE
       /\ log = <<>>
    \/ /\ kind = "anonymous"
       /\ \E id \in UUIDs : info = NewAnonymousAuthInfo(id)
       /\ pwEverSet = FALSE
       /\ log = <<>>
    \/ /\ kind = "provider"
       /\ \E id \in UUIDs, principalID \in PrincipalIDs, authData \in AuthBlobs \cup {Null} :
             /\ info = NewProviderInfoAuthInfo(id, principalID, authData)
             /\ log = << [op |-> "Set", id |-> principalID, data |-> authData] >>
       /\ pwEverSet = FALSE

InitAuthInfo ==
    /\ now = 0
    /\ Constructed
    /\ ret = <<>>
    /\ lastCall = "New"
    /\ panicked = FALSE
    /\ IdleAuthData
    /\ IdleFacl

NextAuthInfo ==
    \/ \E password \in Passwords : CallSetPassword(password)
    \/ \E principalID \in PrincipalIDs, authData \in AuthBlobs \cup {Null} :
          CallSetProviderInfoData(principalID, authData)
    \/ \E principalID \in PrincipalIDs : CallRemoveProviderInfoData(principalID)
    \/ \E roles \in RoleLists : AssignRoles(roles)
    \/ ClockTick
    \/ ClockSetBack

SpecAuthInfo == InitAuthInfo /\ [][NextAuthInfo]_vars

(* The provider-info methods with the calls made so far on record *)

LoggedSetProviderInfoData(principalID, authData) ==
    /\ ~panicked
    /\ Len(log) < MaxOps
    /\ info' = SetProviderInfoData(info, principalID, authData).info
    /\ panicked' = SetProviderInfoData(info, principalID, authData).panic
    /\ log' = Append(log, [op |-> "Set", id |-> principalID, data |-> authData])
    /\ lastCall' = "SetProviderInfoData"
    /\ UNCHANGED <<kind, now, pwEverSet, ret, keys, dataRef, heap, returned, arg, faclVars>>

LoggedRemoveProviderInfoData(principalID) ==
    /\ ~panicked
    /\ Len(log) < MaxOps
    /\ info' = RemoveProviderInfoData(info, principalID)
    /\ log' = Append(log, [op |-> "Remove", id |-> principalID, data |-> Null])
    /\ lastCall' = "RemoveProviderInfoData"
    /\ UNCHANGED <<kind, now, pwEverSet, ret, panicked, keys, dataRef, heap, returned, arg, faclVars>>

CallGetProviderInfoData(principalID) ==
    /\ ~panicked
    /\ ret' = <<principalID, GetProviderInfoData(info, principalID)>>
    /\ lastCall' = "GetProviderInfoData"
    /\ UNCHANGED <<info, kind, now, pwEverSet, log, panicked, keys, dataRef, heap, returned, arg, faclVars>>

NextProviderInfo ==
    \/ \E principalID \in PrincipalIDs, authData \in AuthBlobs \cup {Null} :
          LoggedSetProviderInfoData(principalID, authData)
    \/ \E principalID \in PrincipalIDs : LoggedRemoveProviderInfoData(principalID)
    \/ \E principalID \in PrincipalIDs : CallGetProviderInfoData(principalID)

SpecProviderInfo == InitAuthInfo /\ [][NextProviderInfo]_vars

-----------------------------------------------------------------------------
(* The field-access update handler *)

\* The rules a table may hold: (record_type, record_field, user_role) and the
\* four capabilities.
Rule(role, readable, writable) ==
    [ record_type |-> "note", record_field |-> "content", user_role |-> role,
      writable |-> writable, readable |-> readable,
      comparable |-> FALSE, discoverable |-> FALSE ]

Rules ==
    { Rule("_user_id:johndoe", TRUE, FALSE), Rule("_user_id:johndoe", TRUE, TRUE),
      Rule("_public", FALSE, FALSE) }

Tables == SUBSET Rules

\* A request body: JSON with an "access" array, or bytes that are not JSON.
Bodies == [wellFormed : {TRUE}, access : Tables] \cup [wellFormed : {FALSE}, access : {{}}]

\* FieldAccessUpdateRequestPayload has no field: decoding keeps nothing of
\* the body.
EmptyPayload == <<>>

DecodeRequest(body) ==
    IF body.wellFormed THEN [payload |-> EmptyPayload, err |-> FALSE]
    ELSE [payload |-> EmptyPayload, err |-> TRUE]

Validate(payload) == TRUE

\* Handle returns its zero results and reads nothing of the request; the
\* table the record store holds is the result of no store call.
Handle(req, table) == [resp |-> Null, err |-> FALSE, table |-> table]

\* POST /schema/field_access/update: the master key is required, the body is
\* decoded and validated, Handle runs in a transaction.
FieldAccessUpdate(body, masterKey) ==
    /\ reqBody' = body
    /\ lastCall' = "FieldAccessUpdate"
    /\ IF ~masterKey
         THEN resp' = "denied" /\ facl' = facl
         ELSE IF DecodeRequest(body).err \/ ~Validate(DecodeRequest(body).payload)
         THEN resp' = "bad request" /\ facl' = facl
         ELSE /\ resp' = IF Handle(DecodeRequest(body).payload, facl).err
                           THEN "error" ELSE "ok"
              /\ facl' = Handle(DecodeRequest(body).payload, facl).table
    /\ UNCHANGED <<ret, panicked, keys, dataRef, heap, returned, arg, authInfoVars>>

\* A read of the table, as one step.
FieldAccessRead ==
    /\ ret' = facl
    /\ lastCall' = "FieldAccessRead"
    /\ UNCHANGED <<facl, reqBody, resp, panicked, keys, dataRef, heap, returned, arg,
                   authInfoVars>>

InitFieldAccess ==
    /\ facl \in Tables
    /\ reqBody = [wellFormed |-> FALSE, access |-> {}]
    /\ resp = "none"
    /\ ret = {}
    /\ lastCall = "none"
    /\ panicked = FALSE
    /\ IdleAuthData
    /\ IdleAuthInfo

NextFieldAccess ==
    \/ \E body \in Bodies, masterKey \in BOOLEAN : FieldAccessUpdate(body, masterKey)
    \/ FieldAccessRead

SpecFieldAccess == InitFieldAccess /\ [][NextFieldAccess]_vars

-----------------------------------------------------------------------------
(* The key-group rules as the specification words them, written without  *)
(* the counting loops of the code.                                       *)

\* A group is satisfied iff every field of it is in the data, not nil.
Satisfied(d, g) == \A i \in 1..Len(g) : d[g[i]] \notin {Absent, Null}

SatisfiedAt(d, ks) == { i \in 1..Len(ks) : Satisfied(d, ks[i]) }

FirstSatisfied(d, ks) ==
    IF SatisfiedAt(d, ks) = {} THEN <<>>
    ELSE ks[CHOOSE i \in SatisfiedAt(d, ks) : \A j \in SatisfiedAt(d, ks) : i <= j]

NoStray(d, ks) == KeysOf(d) \subseteq allKeys(ks)

NotNull(d, g) ==
    LET Holds(k) == Lookup(d, k) # Null IN SelectSeq(g, Holds)

EqualTerms(d, g) ==
    [ i \in 1..Len(NotNull(d, g)) |->
        [ Operator |-> "Equal",
          Children |-> << [Type |-> "KeyPath", Value |-> NotNull(d, g)[i]],
                          [Type |-> "Literal", Value |-> d[NotNull(d, g)[i]]] >> ] ]

\* C1: usingKeys returns the first group, in declared order, whose fields are
\* all present and non-null in the data, and the empty sequence when no group
\* is satisfied; a later group is never returned while an earlier one is
\* satisfied.
C1_UsingKeysFirstSatisfied ==
    lastCall = "usingKeys" =>
        /\ SatisfiedAt(Data, keys) = {} => ret = <<>>
        /\ \A i \in SatisfiedAt(Data, keys) :
              (\A j \in 1..(i - 1) : ~Satisfied(Data, keys[j])) => ret = keys[i]
        /\ \A j \in 1..Len(keys) :
              (\E i \in 1..(j - 1) : Satisfied(Data, keys[i]) /\ keys[i] # keys[j])
                 => (ret = keys[j] => \E i \in 1..(j - 1) : keys[i] = keys[j])

\* usingKeys has run on three overlapping groups of which the first is not
\* satisfied and the second and third are.
C1_Witness ==
    /\ lastCall = "usingKeys"
    /\ Len(keys) = 3
    /\ SatisfiedAt(Data, keys) = {2, 3}
    /\ keys[2] # keys[3]
    /\ Range(keys[1]) \cap Range(keys[2]) # {}
    /\ ret = keys[2]

\* C2, as claimed: IsValid is true iff every key of the data is a declared key
\* and at least one group is satisfied.
C2_ValidIffSomeGroupSatisfied ==
    lastCall = "IsValid" =>
        (ret <=> (NoStray(Data, keys) /\ SatisfiedAt(Data, keys) # {}))

\* C2, amended: IsValid is true iff every key of the data (a key holding nil
\* included) is a declared key and the first satisfied group exists and is
\* not the empty group, which is when usingKeys is non-empty.
C2_ValidIffUsingKeysNonEmpty ==
    lastCall = "IsValid" =>
        /\ ret <=> (NoStray(Data, keys) /\ FirstSatisfied(Data, keys) # <<>>)
        /\ (\A i \in 1..Len(keys) : keys[i] # <<>>) =>
              (ret <=> (NoStray(Data, keys) /\ SatisfiedAt(Data, keys) # {}))
        /\ (Data["nickname"] # Absent /\ keys = << <<"username">>, <<"email">> >>)
              => ret = FALSE

\* IsValid has answered false for data that satisfies a group but carries an
\* undeclared key holding nil.
C2_Witness ==
    /\ lastCall = "IsValid"
    /\ ret = FALSE
    /\ SatisfiedAt(Data, keys) # {}
    /\ FirstSatisfied(Data, keys) # <<>>
    /\ Data["nickname"] = Null

\* C3: MakeEqualPredicate returns an And whose children are, in the order of
\* the first satisfied group, one Equal(KeyPath(k), Literal(D[k])) per field k
\* that is not null, and an And without children when no group is satisfied.
C3_EqualPredicateOfUsingKeys ==
    lastCall = "MakeEqualPredicate" =>
        /\ ret.Operator = "And"
        /\ ret.Children = EqualTerms(Data, FirstSatisfied(Data, keys))
        /\ SatisfiedAt(Data, keys) = {} => ret.Children = <<>>
        /\ ( /\ keys = << <<"username">>, <<"email">> >>
             /\ Data["username"] = "alice"
             /\ Data["email"] = Null )
           => ret.Children =
                << [ Operator |-> "Equal",
                     Children |-> << [Type |-> "KeyPath", Value |-> "username"],
                                     [Type |-> "Literal", Value |-> "alice"] >> ] >>

\* MakeEqualPredicate has built a two-term And for a two-field group.
C3_Witness ==
    /\ lastCall = "MakeEqualPredicate"
    /\ FirstSatisfied(Data, keys) = <<"email", "username">>
    /\ Len(ret.Children) = 2
    /\ ret.Children[1].Children[1].Value = "email"

\* C10: whenever IsValid is true, MakeEqualPredicate's And has at least one
\* child and exactly as many as usingKeys has fields, none skipped as null;
\* the And without children arises only where IsValid is false.
C10_ValidImpliesNonVacuous ==
    lastCall = "MakeEqualPredicate" =>
        /\ IsValid(Data, keys) =>
              /\ Len(ret.Children) >= 1
              /\ Len(ret.Children) = Len(usingKeys(Data, keys))
              /\ \A k \in Range(usingKeys(Data, keys)) : Data[k] \notin {Absent, Null}
        /\ ret.Children = <<>> => ~IsValid(Data, keys)

\* MakeEqualPredicate has run on valid data in which a field outside the
\* group used holds nil.
C10_Witness ==
    /\ lastCall = "MakeEqualPredicate"
    /\ IsValid(Data, keys)
    /\ \E k \in KeysOf(Data) : Data[k] = Null
    /\ Len(ret.Children) = 1

\* The results a caller can observe of the AuthData.
Observe ==
    << Data, usingKeys(Data, keys), IsValid(Data, keys), IsEmpty(Data),
       MakeEqualPredicate(Data, keys) >>

C8_GetDataDefensiveCopy ==
    [][ /\ lastCall' = "GetData" =>
              /\ returned' # NilRef
              /\ KeysOf(heap'[returned']) = KeysOf(Data)
              /\ \A k \in KeysOf(Data) : heap'[returned'][k] = Data[k]
        /\ lastCall' \in {"CallerWriteReturned", "CallerDeleteReturned"} =>
              Observe' = Observe
        /\ (lastCall' = "UpdateFromRecordData" /\ returned # NilRef) =>
              heap'[returned] = heap[returned] ]_vars

\* The caller has changed the map it got, which now differs from the
\* internal data.
C8_Witness ==
    /\ lastCall = "CallerWriteReturned"
    /\ returned # NilRef
    /\ dataRef # NilRef
    /\ heap[returned] # Data
    /\ KeysOf(Data) # {}

Watermark(i) == i.TokenValidSince

C5_AnonymousNeverAuthenticates ==
    kind = "anonymous" => \A p \in Passwords : ~IsSamePassword(info, p)

\* C5, amended: a principal built by NewAnonymousAuthInfo has an ID and no
\* credential, and no password matches it for as long as SetPassword has not
\* been called on it: SetProviderInfoData, RemoveProviderInfoData and role
\* changes leave it without a credential.
C5_AnonymousUntilSetPassword ==
    (kind = "anonymous" /\ ~pwEverSet) =>
        /\ info.ID \in UUIDs
        /\ info.HashedPassword = <<>>
        /\ \A p \in Passwords : ~IsSamePassword(info, p)

\* An anonymous principal on which provider info and roles were set, and
\* SetPassword never.
C5_Witness ==
    /\ kind = "anonymous"
    /\ ~pwEverSet
    /\ info.Roles = <<"admin">>
    /\ \E id \in PrincipalIDs : GetProviderInfoData(info, id) \in AuthBlobs
    /\ lastCall = "RemoveProviderInfoData"

\* What the calls made so far say GetProviderInfoData(id) is: the data of the
\* last Set of id if no Remove of id came after it, and no data otherwise.
\* The entry NewProviderInfoAuthInfo stores counts as a first Set.
CallsOn(id) == { n \in 1..Len(log) : log[n].id = id }

LastCallOn(id) == CHOOSE n \in CallsOn(id) : \A m \in CallsOn(id) : m <= n

Expected(id) ==
    IF CallsOn(id) = {} THEN Null
    ELSE IF log[LastCallOn(id)].op = "Set" THEN log[LastCallOn(id)].data
    ELSE Null

\* C9: over any sequence of calls GetProviderInfoData(id) is the data of the
\* most recent SetProviderInfoData(id, d) not followed by a
\* RemoveProviderInfoData(id), and no data (nil) when id was never set, was
\* removed, or there is no map at all; no call panics; a Set or Remove of one
\* id changes the answer for no other id.
C9_ProviderInfoIsAMap ==
    /\ ~panicked
    /\ \A id \in PrincipalIDs : GetProviderInfoData(info, id) = Expected(id)
    /\ lastCall = "GetProviderInfoData" => ret[2] = Expected(ret[1])
    /\ (info.ProviderInfo.isNil \/ log = <<>>) =>
          \A id \in PrincipalIDs : GetProviderInfoData(info, id) = Null

\* GetProviderInfoData has answered no data for an id set and then removed,
\* while the other id still has the data set for it.
C9_Witness ==
    /\ lastCall = "GetProviderInfoData"
    /\ Len(log) = 3
    /\ log[1].op = "Set" /\ log[2].op = "Set" /\ log[3].op = "Remove"
    /\ log[1].id # log[2].id
    /\ log[3].id = log[1].id
    /\ ret = <<log[1].id, Null>>
    /\ GetProviderInfoData(info, log[2].id) \in AuthBlobs

\* C6: after the field-access update operation has replaced the rule table
\* with T, a read returns T (and a reader sees the old or the new table in
\* full, never a mixture).
C6_UpdateThenReadReturnsT ==
    (lastCall = "FieldAccessRead" /\ resp = "ok") =>
        /\ ret = reqBody.access
        /\ facl = reqBody.access

=============================================================================
